---------------------------- MODULE Spec2Model ----------------------------
(***************************************************************************)
(* A model of builders/brillo_builders.py: the Brillo build pipeline       *)
(* (Clean, Sync, Build, VmTest), the emulator scope RunEmulator, and the   *)
(* readiness poller WaitForEmulatorSerial / DiscoverEmulatorSerial.        *)
(*                                                                         *)
(* The builder thread is one sequential process whose position is pc.  The *)
(* emulator is a second process that may exit at any moment.  Text is a    *)
(* sequence of one-character strings, so that the regular expression of    *)
(* DiscoverEmulatorSerial is matched character by character.               *)
(***************************************************************************)
EXTENDS Integers, Sequences, FiniteSets, TLC

VARIABLES
    clobber,        \* self._run.options.clobber
    fs,             \* the set of directories that exist
    fs0,            \* history: fs when the run began
    fsAtStart,      \* history: stage -> fs when the stage started
    pc,             \* position of the builder thread
    stageStatus,    \* stage -> "Pending" | "Running" | "Succeeded" | "Failed"
    stageError,     \* stage -> the exception that left PerformStage, or "None"
    pipelineStatus, \* "Running" | "Succeeded" | "Failed"
    pipelineError,  \* the exception that left RunStages, or "None"
    startOrder,     \* history: the stages in the order they were started
    repoFailed,     \* history: the repository collaborator reported failure
    proc,           \* emulator: "NotSpawned" | "Starting" | "Running" | "Exited"
    spawns,         \* history: number of subprocess.Popen calls
    exc,            \* the exception in flight inside RunEmulator, or "None"
    innerError,     \* history: the exception raised by the body of the with
    procAtGrace,    \* history: proc when p.poll() ran after the grace sleep
    killRuns,       \* history: number of 'adb kill-server' invocations
    killFailed,     \* history: 'adb kill-server' exited non-zero
    attempts,       \* number of DiscoverEmulatorSerial calls
    sleeps,         \* number of time.sleep(10) calls of the poller
    slept,          \* total time the poller has slept
    listing,        \* result.output of the last 'adb devices'
    serial,         \* the poller's return value, None until it returns
    matchedAt,      \* history: the attempt that first matched, 0 if none
    listFailedAt,   \* history: the attempt whose 'adb devices' exited non-zero, 0 if none
    testRuns,       \* history: number of test payload invocations
    testSerial,     \* history: the serial handed to the test payload
    testExit,       \* history: exit status of the test payload, -1 before it ran
    tdRunning,      \* teardown: "unset" | "yes" | "no", p.poll() is None
    termReqs,       \* history: number of p.terminate() calls
    termOnExited,   \* history: p.terminate() was called on an exited process
    waits,          \* history: number of p.wait() returns
    logReads,       \* history: number of osutils.ReadFile(logfile.name) calls
    logEmits,       \* history: number of times the log was emitted
    procAtLogRead,  \* history: proc when the log was read
    logReadable,    \* environment: the temporary log file can be read
    shPayload,      \* shell: the payload FindShellCmd was given
    shOutcome,      \* shell: command index -> the exit status it would end with
    shPos,          \* shell: index of the next command of the line
    shRan,          \* shell history: the commands executed, in order
    shStatus        \* shell: $?, the exit status of the line so far

vars == <<clobber, fs, fs0, fsAtStart, pc, stageStatus, stageError,
          pipelineStatus, pipelineError, startOrder, repoFailed, proc, spawns,
          exc, innerError, procAtGrace, killRuns, killFailed, attempts,
          sleeps, slept, listing, serial, matchedAt, testRuns, testSerial,
          tdRunning, termReqs, termOnExited, waits, logReads, logEmits,
          procAtLogRead, logReadable, listFailedAt, testExit,
          shPayload, shOutcome, shPos, shRan, shStatus>>

-----------------------------------------------------------------------------
(* Bounds and program constants *)

\* The number of lines of a device listing drawn for DiscoverEmulatorSerial.
MaxLines == 2

\* xrange(20) in WaitForEmulatorSerial.
PollAttempts == 20

\* time.sleep(10) in WaitForEmulatorSerial.
PollInterval == 10

\* time.sleep(10) in RunEmulator.
GracePeriod == 10

-----------------------------------------------------------------------------
(* The workspace: BrilloRoot, BuildOutput and the directory utilities *)

\* self._run.buildroot + '_brillo'
BrilloRoot == "root"

\* os.path.join(self.BrilloRoot(), 'out')
BuildOutput == "root/out"

\* The checkout the repository collaborator keeps under the root.
RepoDir == "root/.repo"

Paths == {BrilloRoot, BuildOutput, RepoDir}

\* The directory a path lies in; the root's own parent always exists.
Parent(p) == IF p = BrilloRoot THEN "/" ELSE BrilloRoot

\* p and everything below it.
Subtree(p) == {q \in Paths : q = p \/ Parent(q) = p}

\* A directory exists only inside an existing directory.
WellFormedFs(f) == \A p \in f : Parent(p) = "/" \/ Parent(p) \in f

\* osutils.RmDir(path, ignore_missing=True): remove the tree, no error when
\* it is absent.
RmDir(f, p) == f \ Subtree(p)

\* osutils.SafeMakedirs(path): create the directory and its parents, no error
\* when it exists.
SafeMakedirs(f, p) == f \cup {p} \cup (IF Parent(p) = "/" THEN {} ELSE {Parent(p)})

\* A mutant of BrilloCleanStage.PerformStage: the clobber flag is ignored.
CleanPerformStageAlwaysClobber(f, c) == RmDir(RmDir(f, BuildOutput), BrilloRoot)

\* BrilloCleanStage.PerformStage on the filesystem f with clobber flag c.
CleanPerformStage(f, c) ==
    LET f1 == RmDir(f, BuildOutput)
    IN IF c THEN RmDir(f1, BrilloRoot) ELSE f1

-----------------------------------------------------------------------------
(* Text, and the regular expression of DiscoverEmulatorSerial *)

\* Python's None; also the only falsy string, the empty one.
None == <<>>

Letters ==
    {"a", "b", "c", "d", "e", "f", "g", "h", "i", "j", "k", "l", "m",
     "n", "o", "p", "q", "r", "s", "t", "u", "v", "w", "x", "y", "z",
     "A", "B", "C", "D", "E", "F", "G", "H", "I", "J", "K", "L", "M",
     "N", "O", "P", "Q", "R", "S", "T", "U", "V", "W", "X", "Y", "Z"}

Digits == {"0", "1", "2", "3", "4", "5", "6", "7", "8", "9"}

\* A mutant of IsTokenChar: the class is \w alone, the hyphen is forgotten.
IsTokenCharNoHyphen(c) == c \in Letters \cup Digits \cup {"_"}

\* The character class [\w-] of the pattern.
IsTokenChar(c) == c \in Letters \cup Digits \cup {"_", "-"}

\* The literal "device" of the pattern.
DeviceWord == <<"d", "e", "v", "i", "c", "e">>

\* ^ under re.MULTILINE: the start of the text, or just after a newline.
AtLineStart(t, i) == i = 1 \/ t[i - 1] = "\n"

\* $ under re.MULTILINE: the end of the text, or just before a newline.
AtLineEnd(t, i) == i = Len(t) + 1 \/ t[i] = "\n"

\* The position after the longest run of [\w-] that starts at i.  The run is
\* greedy, and giving a character back never helps: what follows it in the
\* pattern is a tab, which is not in the class.
RECURSIVE TokenEnd(_, _)
TokenEnd(t, i) ==
    IF i <= Len(t) /\ IsTokenChar(t[i]) THEN TokenEnd(t, i + 1) ELSE i

\* The pattern ^([\w-]+)\tdevice$ matches at position i.
MatchesAt(t, i) ==
    LET j == TokenEnd(t, i)
    IN /\ AtLineStart(t, i)
       /\ j > i
       /\ j + Len(DeviceWord) <= Len(t)
       /\ t[j] = "\t"
       /\ SubSeq(t, j + 1, j + Len(DeviceWord)) = DeviceWord
       /\ AtLineEnd(t, j + Len(DeviceWord) + 1)

\* re.search(...) and m.group(1): the token of the leftmost match, or None.
DiscoverEmulatorSerial(t) ==
    LET hits == {i \in 1..Len(t) : MatchesAt(t, i)}
    IN IF hits = {} THEN None
       ELSE LET i == CHOOSE h \in hits : \A g \in hits : h <= g
            IN SubSeq(t, i, TokenEnd(t, i) - 1)

-----------------------------------------------------------------------------
(* Device listings: the inputs of DiscoverEmulatorSerial *)

\* The first line 'adb devices' prints.
Header == <<"L", "i", "s", "t", " ", "o", "f", " ", "d", "e", "v", "i", "c", "e", "s", " ", "a", "t", "t", "a", "c", "h", "e", "d">>

OfflineWord == <<"o", "f", "f", "l", "i", "n", "e">>

\* The serial number of the source's comment and of the spec's scenario.
Emu5554 == <<"e", "m", "u", "l", "a", "t", "o", "r", "-", "5", "5", "5", "4">>

TokPlain == <<"e", "-", "5">>
TokUnder == <<"Z", "_", "9">>
TokDotted == <<"1", ".", "2", ":", "5">>
TokSpaced == <<"a", " ", "b">>

Tokens == {TokPlain, TokUnder, TokDotted, TokSpaced, <<>>}

StateWords == {DeviceWord, OfflineWord, DeviceWord \o <<"s">>}

Separators == {"\t", " "}

\* The lines a listing is made of: the header, the empty line, and a token,
\* a separator and a state word.
Lines ==
    {Header, <<>>}
        \cup {tok \o <<sep>> \o w : tok \in Tokens, sep \in Separators, w \in StateWords}

\* The lines joined by newlines.
RECURSIVE JoinLines(_)
JoinLines(ls) ==
    IF ls = << >> THEN << >>
    ELSE IF Len(ls) = 1 THEN ls[1]
    ELSE ls[1] \o <<"\n">> \o JoinLines(Tail(ls))

\* Every listing of at most MaxLines lines.
Texts == {JoinLines(ls) : ls \in UNION {[1..n -> Lines] : n \in 0..MaxLines}}

\* The listings the environment answers a poll with: nothing attached, the
\* emulator offline, the emulator ready.
PollTexts ==
    {Header,
     JoinLines(<<Header, Emu5554 \o <<"\t">> \o OfflineWord>>),
     JoinLines(<<Header, Emu5554 \o <<"\t">> \o DeviceWord>>)}

-----------------------------------------------------------------------------
(* The command runner *)

\* The exit statuses a shell line can end with: success and one failure.
ExitCodes == {0, 1}

\* cros_build_lib.RunCommand raises on a non-zero exit status unless the
\* caller passed error_code_ok.
RunCommandRaises(code, errorCodeOk) == code # 0 /\ ~errorCodeOk

\* A mutant of RunLunchCommand: the exit status is never looked at.
RunLunchCommandIgnoresStatus(code, errorCodeOk) == "None"

\* BrilloStageBase.RunLunchCommand: the keyword arguments go to RunCommand
\* as they are; the exception that leaves it, or "None".
RunLunchCommand(code, errorCodeOk) ==
    IF RunCommandRaises(code, errorCodeOk) THEN "CommandFailed" ELSE "None"

\* self.RunLunchCommand(['adb', 'kill-server']): no error_code_ok is passed.
KillServerErrorCodeOk == FALSE

-----------------------------------------------------------------------------
(* The stage pipeline: BrilloBuilder.RunStages *)

\* The _RunStage calls of RunStages, in the order they are written.
StageOrder == <<"Clean", "Sync", "Build", "VmTest">>

Stages == {StageOrder[i] : i \in 1..Len(StageOrder)}

StageIndex(s) == CHOOSE i \in 1..Len(StageOrder) : StageOrder[i] = s

\* A mutant of AfterStage: the exception of a stage is swallowed and the
\* next _RunStage call is made.
AfterStageSwallows(s, e) ==
    IF StageIndex(s) < Len(StageOrder) THEN StageOrder[StageIndex(s) + 1] ELSE "Done"

\* Where RunStages goes after _RunStage(s): an exception e leaves RunStages,
\* otherwise the next call follows.
AfterStage(s, e) ==
    IF e # "None" THEN "Done"
    ELSE IF StageIndex(s) < Len(StageOrder) THEN StageOrder[StageIndex(s) + 1]
    ELSE "Done"

\* _RunStage(s) begins.
StartStage(s) ==
    /\ startOrder' = Append(startOrder, s)
    /\ fsAtStart' = [fsAtStart EXCEPT ![s] = fs]

\* _RunStage(s) ends: PerformStage returned (e = "None") or raised e.
FinishStage(s, e) ==
    /\ stageStatus' = [stageStatus EXCEPT ![s] = IF e = "None" THEN "Succeeded" ELSE "Failed"]
    /\ stageError' = [stageError EXCEPT ![s] = e]
    /\ pc' = AfterStage(s, e)
    /\ pipelineStatus' = IF e # "None" THEN "Failed"
                         ELSE IF AfterStage(s, e) = "Done" THEN "Succeeded"
                         ELSE "Running"
    /\ pipelineError' = e

shellVars == <<shPayload, shOutcome, shPos, shRan, shStatus>>
\* What no action of the pipeline changes.
cfgVars == <<clobber, fs0, logReadable, shellVars>>
stageVars == <<stageStatus, stageError, pipelineStatus, pipelineError>>
startVars == <<startOrder, fsAtStart>>
scopeVars == <<exc, innerError, procAtGrace>>
killVars == <<killRuns, killFailed>>
pollVars == <<attempts, sleeps, slept, listing, serial, matchedAt, listFailedAt>>
testVars == <<testRuns, testSerial, testExit>>
tdVars == <<tdRunning, termReqs, termOnExited, waits, logReads, logEmits, procAtLogRead>>
vmVars == <<proc, spawns, scopeVars, killVars, pollVars, testVars, tdVars>>

\* No stage has run, no emulator was spawned.
FreshRun ==
    /\ fsAtStart = [s \in Stages |-> {}]
    /\ stageStatus = [s \in Stages |-> "Pending"]
    /\ stageError = [s \in Stages |-> "None"]
    /\ pipelineStatus = "Running"
    /\ pipelineError = "None"
    /\ startOrder = << >>
    /\ repoFailed = FALSE
    /\ proc = "NotSpawned"
    /\ spawns = 0
    /\ exc = "None"
    /\ innerError = "None"
    /\ procAtGrace = "unset"
    /\ killRuns = 0
    /\ killFailed = FALSE
    /\ attempts = 0
    /\ sleeps = 0
    /\ slept = 0
    /\ serial = None
    /\ matchedAt = 0
    /\ listFailedAt = 0
    /\ testRuns = 0
    /\ testSerial = None
    /\ testExit = -1
    /\ tdRunning = "unset"
    /\ termReqs = 0
    /\ termOnExited = FALSE
    /\ waits = 0
    /\ logReads = 0
    /\ logEmits = 0
    /\ procAtLogRead = "unset"

\* No shell line is being followed.
ShellIdle ==
    /\ shPayload = "make"
    /\ shOutcome = [i \in 1..4 |-> 0]
    /\ shPos = 1
    /\ shRan = << >>
    /\ shStatus = 0

\* The state when RunStages is entered: any clobber flag, any directories
\* left by an earlier run, the log file readable or not.
InitWith(readable) ==
    /\ clobber \in BOOLEAN
    /\ fs \in {f \in SUBSET Paths : WellFormedFs(f)}
    /\ fs0 = fs
    /\ pc = StageOrder[1]
    /\ listing = << >>
    /\ logReadable \in readable
    /\ FreshRun
    /\ ShellIdle

\* The temporary log file exists for as long as its with block is open.
Init == InitWith({TRUE})

\* _RunStage(BrilloCleanStage).
CleanStage ==
    /\ pc = "Clean"
    /\ StartStage("Clean")
    /\ fs' = CleanPerformStage(fs, clobber)
    /\ FinishStage("Clean", "None")
    /\ UNCHANGED <<cfgVars, repoFailed, vmVars>>

\* A mutant of SyncRaises: a failure of the collaborator is swallowed.
SyncRaisesNever(initOk, syncOk) == "None"

\* BrilloSyncStage.PerformStage: whatever Initialize or Sync raises leaves it.
SyncRaises(initOk, syncOk) ==
    IF initOk /\ syncOk THEN "None" ELSE "SyncFailed"

\* A mutant of SyncPerformFs: the SafeMakedirs call is missing and the
\* collaborator does not make up for it.
SyncPerformFsNoMakedirs(f, initOk) == f

\* The directories after BrilloSyncStage.PerformStage: SafeMakedirs of the
\* root, then the checkout Initialize() sets up when it succeeds.
SyncPerformFs(f, initOk) ==
    SafeMakedirs(f, BrilloRoot) \cup (IF initOk THEN {RepoDir} ELSE {})

\* _RunStage(BrilloSyncStage).  Sync() is called only when Initialize()
\* returned; Initialize() sets the checkout up under the root.
SyncStage ==
    /\ pc = "Sync"
    /\ StartStage("Sync")
    /\ \E initOk \in BOOLEAN :
         \E syncOk \in (IF initOk THEN BOOLEAN ELSE {TRUE}) :
            /\ fs' = SyncPerformFs(fs, initOk)
            /\ repoFailed' = ~(initOk /\ syncOk)
            /\ FinishStage("Sync", SyncRaises(initOk, syncOk))
    /\ UNCHANGED <<cfgVars, vmVars>>

\* _RunStage(BrilloBuildStage): make, through RunLunchCommand.
BuildStage ==
    /\ pc = "Build"
    /\ StartStage("Build")
    /\ \E code \in ExitCodes :
         /\ fs' = (IF code = 0 THEN fs \cup {BuildOutput} ELSE fs)
         /\ FinishStage("Build", RunLunchCommand(code, FALSE))
    /\ UNCHANGED <<cfgVars, repoFailed, vmVars>>

-----------------------------------------------------------------------------
(* The VmTest stage: RunEmulator, WaitForEmulatorSerial, PerformStage *)

\* A mutant of ScopeExit: the start-up failure is raised outside the try, so
\* the finally block does not run for it.
ScopeExitSkipsStartFailure(e) ==
    IF e = "EmulatorFailedToStart" THEN "vm_exit" ELSE "td_poll"

\* A mutant of ScopeExit: the clean-up follows the yield without a finally,
\* so it runs only when the try block ends without an exception.
ScopeExitOnlyOnSuccess(e) == IF e = "None" THEN "td_poll" ELSE "vm_exit"

\* try ... finally of RunEmulator: however the try block is left, with an
\* exception e or with "None", the finally block is entered.
ScopeExit(e) == "td_poll"

\* The body of the with raises e: the exception is thrown into the generator
\* at its yield, which is inside the try.
RaiseInBody(e) ==
    /\ exc' = e
    /\ innerError' = e
    /\ pc' = ScopeExit(e)

\* subprocess.Popen(...): the emulator runs in the background.
VmSpawn ==
    /\ pc = "VmTest"
    /\ StartStage("VmTest")
    /\ stageStatus' = [stageStatus EXCEPT !["VmTest"] = "Running"]
    /\ proc' = "Starting"
    /\ spawns' = spawns + 1
    /\ pc' = "vm_grace"
    /\ UNCHANGED <<cfgVars, fs, repoFailed, stageError, pipelineStatus, pipelineError,
                   scopeVars, killVars, pollVars, testVars, tdVars>>

\* The emulator process ends on its own, or after a termination request.
EmulatorExits ==
    /\ proc \in {"Starting", "Running"}
    /\ proc' = "Exited"
    /\ UNCHANGED <<cfgVars, fs, repoFailed, pc, stageVars, startVars, spawns,
                   scopeVars, killVars, pollVars, testVars, tdVars>>

\* A mutant of GraceCheckFails: the check after the grace sleep is missing.
GraceCheckNever(p) == FALSE

\* if p.poll() is not None
GraceCheckFails(p) == p = "Exited"

\* time.sleep(10), then p.poll(): an exit raises EmulatorFailedToStart inside
\* the try; otherwise the generator yields to the body of the with.
VmGrace ==
    /\ pc = "vm_grace"
    /\ procAtGrace' = proc
    /\ IF GraceCheckFails(proc)
       THEN /\ exc' = "EmulatorFailedToStart"
            /\ pc' = ScopeExit("EmulatorFailedToStart")
            /\ UNCHANGED proc
       ELSE /\ proc' = (IF proc = "Starting" THEN "Running" ELSE proc)
            /\ pc' = "vm_kill"
            /\ UNCHANGED exc
    /\ UNCHANGED <<cfgVars, fs, repoFailed, stageVars, startVars, spawns, innerError,
                   killVars, pollVars, testVars, tdVars>>

\* self.RunLunchCommand(['adb', 'kill-server']).
VmKillServer ==
    /\ pc = "vm_kill"
    /\ \E code \in ExitCodes :
         LET e == RunLunchCommand(code, KillServerErrorCodeOk)
         IN /\ killRuns' = killRuns + 1
            /\ killFailed' = (code # 0)
            /\ IF e # "None"
               THEN RaiseInBody(e)
               ELSE /\ pc' = "vm_poll"
                    /\ UNCHANGED <<exc, innerError>>
    /\ UNCHANGED <<cfgVars, fs, repoFailed, stageVars, startVars, proc, spawns,
                   procAtGrace, pollVars, testVars, tdVars>>

\* A mutant of PollerReturns: the loop goes on although a serial was found.
PollerReturnsNever(result) == FALSE

\* if result: return result
PollerReturns(result) == result # None

\* A mutant of LoopContinues: xrange(21), one attempt too many.
LoopContinuesOnceMore(n) == n < PollAttempts + 1

\* for _ in xrange(20): another iteration follows n completed ones.
LoopContinues(n) == n < PollAttempts

\* A mutant of DiscoverErrorCodeOk: a failed listing counts as no match.
DiscoverErrorCodeOkSet == TRUE

\* self.RunLunchCommand(['adb', 'devices'], redirect_stdout=True,
\* combine_stdout_stderr=True): no error_code_ok is passed.
DiscoverErrorCodeOk == FALSE

\* One iteration of WaitForEmulatorSerial up to its sleep: 'adb devices'
\* through RunLunchCommand, then the search of its output.
VmPollAttempt ==
    /\ pc = "vm_poll"
    /\ \E code \in ExitCodes, text \in PollTexts :
         LET e == RunLunchCommand(code, DiscoverErrorCodeOk)
             result == DiscoverEmulatorSerial(text)
         IN /\ attempts' = attempts + 1
            /\ listFailedAt' = (IF code # 0 THEN attempts + 1 ELSE listFailedAt)
            /\ IF e # "None"
               THEN /\ RaiseInBody(e)
                    /\ UNCHANGED <<listing, serial, matchedAt>>
               ELSE /\ listing' = text
                    /\ IF PollerReturns(result)
                       THEN /\ serial' = result
                            /\ matchedAt' = attempts + 1
                            /\ pc' = "vm_test"
                       ELSE /\ pc' = "vm_sleep"
                            /\ UNCHANGED <<serial, matchedAt>>
                    /\ UNCHANGED <<exc, innerError>>
    /\ UNCHANGED <<cfgVars, fs, repoFailed, stageVars, startVars, proc, spawns,
                   procAtGrace, killVars, sleeps, slept, testVars, tdVars>>

\* time.sleep(10) at the end of an iteration; when the loop is exhausted,
\* raise EmulatorNotReady().
VmPollSleep ==
    /\ pc = "vm_sleep"
    /\ sleeps' = sleeps + 1
    /\ slept' = slept + PollInterval
    /\ IF LoopContinues(attempts)
       THEN /\ pc' = "vm_poll"
            /\ UNCHANGED <<exc, innerError>>
       ELSE RaiseInBody("EmulatorNotReady")
    /\ UNCHANGED <<cfgVars, fs, repoFailed, stageVars, startVars, proc, spawns,
                   procAtGrace, killVars, attempts, listing, serial, matchedAt,
                   listFailedAt, testVars, tdVars>>

\* The test payload test_droid.py --debug <serial> brillo_WhitelistedGtests;
\* when it returns, the body of the with is complete.
VmRunTests ==
    /\ pc = "vm_test"
    /\ \E code \in ExitCodes :
         LET e == RunLunchCommand(code, FALSE)
         IN /\ testRuns' = testRuns + 1
            /\ testSerial' = serial
            /\ testExit' = code
            /\ IF e # "None"
               THEN RaiseInBody(e)
               ELSE /\ pc' = ScopeExit("None")
                    /\ UNCHANGED <<exc, innerError>>
    /\ UNCHANGED <<cfgVars, fs, repoFailed, stageVars, startVars, proc, spawns,
                   procAtGrace, killVars, pollVars, tdVars>>

\* A mutant of AfterTdPoll: p.terminate() is called without the check.
AfterTdPollAlwaysTerminates(p) == "td_term"

\* A mutant of AfterTdPoll: the p.terminate() call is missing.
AfterTdPollNeverTerminates(p) == "td_wait"

\* if p.poll() is None: p.terminate(); then p.wait() in either case.
AfterTdPoll(p) == IF p = "Exited" THEN "td_wait" ELSE "td_term"

\* finally: if p.poll() is None
TdPoll ==
    /\ pc = "td_poll"
    /\ tdRunning' = (IF proc = "Exited" THEN "no" ELSE "yes")
    /\ pc' = AfterTdPoll(proc)
    /\ UNCHANGED <<cfgVars, fs, repoFailed, stageVars, startVars, proc, spawns,
                   scopeVars, killVars, pollVars, testVars, termReqs, termOnExited,
                   waits, logReads, logEmits, procAtLogRead>>

\* p.terminate(): the signal is sent to the pid, also when the process has
\* exited since the poll (it is not reaped before p.wait()).
TdTerminate ==
    /\ pc = "td_term"
    /\ termReqs' = termReqs + 1
    /\ termOnExited' = (termOnExited \/ proc = "Exited")
    /\ pc' = "td_wait"
    /\ UNCHANGED <<cfgVars, fs, repoFailed, stageVars, startVars, proc, spawns,
                   scopeVars, killVars, pollVars, testVars, tdRunning, waits,
                   logReads, logEmits, procAtLogRead>>

\* A mutant of WaitReturns: the wait does not block (as a poll would).
WaitReturnsAtOnce(p) == TRUE

\* p.wait() returns once the process has exited; there is no timeout.
WaitReturns(p) == p = "Exited"

\* p.wait()
TdWait ==
    /\ pc = "td_wait"
    /\ WaitReturns(proc)
    /\ waits' = waits + 1
    /\ pc' = "td_log"
    /\ UNCHANGED <<cfgVars, fs, repoFailed, stageVars, startVars, proc, spawns,
                   scopeVars, killVars, pollVars, testVars, tdRunning, termReqs,
                   termOnExited, logReads, logEmits, procAtLogRead>>

\* A mutant of ExcAfterLogRead: the finally block swallows the exception in
\* flight (as a return inside finally would).
ExcAfterLogReadSwallows(e, readOk) == IF readOk THEN "None" ELSE "IOError"

\* The exception in flight when the finally block ends: an exception raised
\* by ReadFile replaces the one the block was entered with.
ExcAfterLogRead(e, readOk) == IF readOk THEN e ELSE "IOError"

\* osutils.ReadFile(logfile.name) and the logging.info calls around it.
TdLog ==
    /\ pc = "td_log"
    /\ logReads' = logReads + 1
    /\ procAtLogRead' = proc
    /\ logEmits' = (IF logReadable THEN logEmits + 1 ELSE logEmits)
    /\ exc' = ExcAfterLogRead(exc, logReadable)
    /\ pc' = "vm_exit"
    /\ UNCHANGED <<cfgVars, fs, repoFailed, stageVars, startVars, proc, spawns,
                   innerError, procAtGrace, killVars, pollVars, testVars,
                   tdRunning, termReqs, termOnExited, waits>>

\* The with statement is left: PerformStage returns, or the exception in
\* flight leaves it.
VmExit ==
    /\ pc = "vm_exit"
    /\ FinishStage("VmTest", exc)
    /\ UNCHANGED <<cfgVars, fs, repoFailed, startVars, vmVars>>

Next ==
    \/ CleanStage
    \/ SyncStage
    \/ BuildStage
    \/ VmSpawn
    \/ EmulatorExits
    \/ VmGrace
    \/ VmKillServer
    \/ VmPollAttempt
    \/ VmPollSleep
    \/ VmRunTests
    \/ TdPoll
    \/ TdTerminate
    \/ TdWait
    \/ TdLog
    \/ VmExit

Spec == Init /\ [][Next]_vars

\* The run in which something removes the temporary log file before the
\* finally block reads it.
SpecLogFault == InitWith(BOOLEAN) /\ [][Next]_vars

-----------------------------------------------------------------------------
(* DiscoverEmulatorSerial alone, on every listing of Texts *)

InitDiscover ==
    /\ clobber = FALSE
    /\ fs = {}
    /\ fs0 = fs
    /\ pc = "discover"
    /\ listing \in Texts
    /\ logReadable = TRUE
    /\ FreshRun
    /\ ShellIdle

\* One call of DiscoverEmulatorSerial whose 'adb devices' printed listing.
DiscoverStep ==
    /\ pc = "discover"
    /\ attempts' = attempts + 1
    /\ serial' = DiscoverEmulatorSerial(listing)
    /\ pc' = "discovered"
    /\ UNCHANGED <<cfgVars, fs, repoFailed, stageVars, startVars, proc, spawns,
                   scopeVars, killVars, sleeps, slept, listing, matchedAt,
                   listFailedAt, testVars, tdVars>>

SpecDiscover == InitDiscover /\ [][DiscoverStep]_vars

-----------------------------------------------------------------------------
(* The shell line of FindShellCmd, followed by the shell command by command *)

\* A mutant of FindShellCmd: the commands are joined by ';'.
FindShellCmdSequenced(cmd) ==
    [cmds |-> <<". build/envsetup.sh", "lunch", "OUT_DIR=", cmd>>, sep |-> ";"]

\* BrilloStageBase.FindShellCmd: cmd_list, joined by ' > /dev/null && '.
FindShellCmd(cmd) ==
    [cmds |-> <<". build/envsetup.sh", "lunch", "OUT_DIR=", cmd>>, sep |-> "&&"]

\* The payloads the stages hand to FindShellCmd.
ShellPayloads ==
    {"make -j 32", "emulator", "adb devices", "adb kill-server", "test_droid.py"}

\* The line is at its end.
ShellDone == shPos > Len(FindShellCmd(shPayload).cmds)

\* In 'a && b' the shell executes b only when a ended with status 0; in
\* 'a ; b' it executes b in any case.
ShellExecutesNext ==
    \/ shPos = 1
    \/ FindShellCmd(shPayload).sep = ";"
    \/ FindShellCmd(shPayload).sep = "&&" /\ shStatus = 0

InitShell ==
    /\ clobber = FALSE
    /\ fs = {}
    /\ fs0 = fs
    /\ pc = "shell"
    /\ listing = << >>
    /\ logReadable = TRUE
    /\ FreshRun
    /\ shPayload \in ShellPayloads
    /\ shOutcome \in [1..4 -> ExitCodes]
    /\ shPos = 1
    /\ shRan = << >>
    /\ shStatus = 0

\* The shell executes the next command of the line.
ShellRun ==
    /\ pc = "shell"
    /\ ~ShellDone
    /\ ShellExecutesNext
    /\ shRan' = Append(shRan, FindShellCmd(shPayload).cmds[shPos])
    /\ shStatus' = shOutcome[shPos]
    /\ shPos' = shPos + 1
    /\ UNCHANGED <<clobber, fs0, logReadable, shPayload, shOutcome, fs, repoFailed,
                   pc, stageVars, startVars, vmVars>>

\* The shell passes over the next command of an and-list that has failed.
ShellSkip ==
    /\ pc = "shell"
    /\ ~ShellDone
    /\ ~ShellExecutesNext
    /\ shPos' = shPos + 1
    /\ UNCHANGED <<clobber, fs0, logReadable, shPayload, shOutcome, shRan, shStatus,
                   fs, repoFailed, pc, stageVars, startVars, vmVars>>

NextShell == ShellRun \/ ShellSkip

SpecShell == InitShell /\ [][NextShell]_vars

-----------------------------------------------------------------------------
(* The pipeline under the scheduling the code relies on *)

\* The steps of the builder thread.
ThreadNext ==
    \/ CleanStage
    \/ SyncStage
    \/ BuildStage
    \/ VmSpawn
    \/ VmGrace
    \/ VmKillServer
    \/ VmPollAttempt
    \/ VmPollSleep
    \/ VmRunTests
    \/ TdPoll
    \/ TdTerminate
    \/ TdWait
    \/ TdLog
    \/ VmExit

\* The emulator ends after p.terminate() has signalled it.
EmulatorExitsOnRequest == termReqs > 0 /\ EmulatorExits

\* The builder thread keeps running (every command and every sleep returns),
\* and a signalled emulator exits; an emulator that was not signalled may run
\* for ever.
SpecFair ==
    /\ Init
    /\ [][Next]_vars
    /\ WF_vars(ThreadNext)
    /\ WF_vars(EmulatorExitsOnRequest)

-----------------------------------------------------------------------------
(* Vocabulary of the properties *)

\* The order in which the pipeline is declared to run its stages.
DeclaredOrder == <<"Clean", "Sync", "Build", "VmTest">>

\* The stages that have been started.
Started == {startOrder[i] : i \in 1..Len(startOrder)}

\* The stages declared after s.
LaterStages(s) ==
    {DeclaredOrder[j] : j \in {k \in 1..Len(DeclaredOrder) :
        \E i \in 1..(k - 1) : DeclaredOrder[i] = s}}

\* The builder thread has left the supervised scope of RunEmulator.
ScopeLeft == pc \in {"vm_exit", "Done"} /\ spawns > 0

\* The position of the first newline of t, 0 when it has none.
FirstNewline(t) ==
    IF \E i \in 1..Len(t) : t[i] = "\n"
    THEN CHOOSE i \in 1..Len(t) : t[i] = "\n" /\ \A j \in 1..(i - 1) : t[j] # "\n"
    ELSE 0

\* The lines of t.
RECURSIVE SplitLines(_)
SplitLines(t) ==
    IF FirstNewline(t) = 0 THEN <<t>>
    ELSE <<SubSeq(t, 1, FirstNewline(t) - 1)>>
             \o SplitLines(SubSeq(t, FirstNewline(t) + 1, Len(t)))

\* The characters of a serial number: letters, digits, underscore, hyphen.
SerialChars == Letters \cup Digits \cup {"_", "-"}

\* Line l is exactly X, a tab and the word device, for a non-empty X made of
\* characters of allowed.
IsDeviceLine(l, allowed) ==
    LET n == Len(l) - 7
    IN /\ n >= 1
       /\ SubSeq(l, n + 1, Len(l)) = <<"\t", "d", "e", "v", "i", "c", "e">>
       /\ \A i \in 1..n : l[i] \in allowed

\* The X of the first line of t that is a device line, None when none is.
FirstDeviceToken(t, allowed) ==
    LET ls == SplitLines(t)
        hits == {i \in 1..Len(ls) : IsDeviceLine(ls[i], allowed)}
    IN IF hits = {} THEN None
       ELSE LET i == CHOOSE h \in hits : \A g \in hits : h <= g
            IN SubSeq(ls[i], 1, Len(ls[i]) - 7)

\* Every character but tab and newline that a listing of Texts can hold.
AnyChars == Letters \cup Digits \cup {"_", "-", ".", ":", " "}

-----------------------------------------------------------------------------
(* C1 *)

\* C1: stages start only in the order Clean, Sync, Build, VmTest, each at most
\* once; a stage is started only when every earlier stage ended Succeeded; a
\* Failed stage makes the pipeline Failed and no later stage is ever started;
\* the pipeline is Succeeded exactly when all four stages ended Succeeded.
C1_StagesInOrderFailFast ==
    /\ \E n \in 0..Len(DeclaredOrder) : startOrder = SubSeq(DeclaredOrder, 1, n)
    /\ \A s \in Stages : (stageStatus[s] # "Pending") <=> (s \in Started)
    /\ \A i \in 1..Len(startOrder) : \A j \in 1..(i - 1) :
          stageStatus[startOrder[j]] = "Succeeded"
    /\ \A s \in Stages : stageStatus[s] = "Failed" =>
          /\ pipelineStatus = "Failed"
          /\ pc = "Done"
          /\ \A t \in LaterStages(s) : stageStatus[t] = "Pending" /\ t \notin Started
    /\ (pipelineStatus = "Succeeded") <=> (\A s \in Stages : stageStatus[s] = "Succeeded")
    /\ (pipelineStatus = "Failed") <=> (\E s \in Stages : stageStatus[s] = "Failed")

\* The Build stage failed: the run is over and VmTest was never started.
C1_Witness ==
    /\ stageStatus["Build"] = "Failed"
    /\ startOrder = <<"Clean", "Sync", "Build">>
    /\ pipelineStatus = "Failed"
    /\ pc = "Done"

-----------------------------------------------------------------------------
(* C2 *)

\* C2: when the repository collaborator reports failure in the Sync stage,
\* Build and VmTest are never executed, no emulator is spawned, and the
\* pipeline ends Failed with SyncFailed.
C2_SyncFailureStopsRun ==
    repoFailed =>
        /\ stageStatus["Sync"] = "Failed"
        /\ stageError["Sync"] = "SyncFailed"
        /\ stageStatus["Build"] = "Pending" /\ "Build" \notin Started
        /\ stageStatus["VmTest"] = "Pending" /\ "VmTest" \notin Started
        /\ spawns = 0 /\ proc = "NotSpawned"
        /\ pc = "Done"
        /\ pipelineStatus = "Failed"
        /\ pipelineError = "SyncFailed"

\* The collaborator failed after Clean had run.
C2_Witness ==
    /\ repoFailed
    /\ startOrder = <<"Clean", "Sync">>
    /\ pipelineError = "SyncFailed"

-----------------------------------------------------------------------------
(* C3 *)

\* C3: once the emulator is spawned, teardown runs exactly once on every way
\* out of the supervised scope: one termination request when the process was
\* still running at teardown's check and none when it had exited, one
\* wait-for-exit, one read-and-emit of the log.
C3_TeardownExactlyOnce ==
    /\ termReqs <= 1 /\ waits <= 1 /\ logReads <= 1 /\ logEmits <= 1
    /\ spawns <= 1
    /\ ScopeLeft =>
          /\ tdRunning \in {"yes", "no"}
          /\ termReqs = (IF tdRunning = "yes" THEN 1 ELSE 0)
          /\ waits = 1
          /\ logReads = 1
          /\ logEmits = 1

\* The poller gave up with the emulator still running: it was terminated,
\* waited for, and its log emitted.
C3_Witness ==
    /\ pc = "Done"
    /\ stageError["VmTest"] = "EmulatorNotReady"
    /\ tdRunning = "yes"
    /\ termReqs = 1 /\ waits = 1 /\ logEmits = 1

-----------------------------------------------------------------------------
(* C4 *)

\* C4: when no attempt matches, the poller makes exactly 20 attempts and sleeps
\* only between consecutive attempts, 19 times, before EmulatorNotReady; there
\* is never a 21st attempt.
C4_TwentyAttemptsNineteenSleeps ==
    /\ attempts <= 20
    /\ innerError = "EmulatorNotReady" =>
          /\ attempts = 20
          /\ sleeps = 19
          /\ slept = 190

-----------------------------------------------------------------------------
(* C5 *)

\* C5: when the emulator has exited by the check that ends the grace period,
\* EmulatorFailedToStart is raised without yielding: no kill-server, no
\* device listing and no test payload is run, the spawn is not retried, and
\* the VmTest stage fails with EmulatorFailedToStart.
C5_StartupGrace ==
    procAtGrace = "Exited" =>
        /\ killRuns = 0 /\ attempts = 0 /\ sleeps = 0 /\ testRuns = 0
        /\ spawns = 1
        /\ innerError = "None"
        /\ exc = "EmulatorFailedToStart"
        /\ pc \in {"td_poll", "td_wait", "td_log", "vm_exit", "Done"}
        /\ stageStatus["VmTest"] \in {"Running", "Failed"}
        /\ pc = "Done" =>
              /\ stageStatus["VmTest"] = "Failed"
              /\ stageError["VmTest"] = "EmulatorFailedToStart"
              /\ pipelineError = "EmulatorFailedToStart"

\* The emulator crashed during the grace period and the stage has failed.
C5_Witness ==
    /\ procAtGrace = "Exited"
    /\ pc = "Done"
    /\ stageError["VmTest"] = "EmulatorFailedToStart"
    /\ waits = 1

-----------------------------------------------------------------------------
(* C6 *)

\* C6 as stated: a line X, tab, device, for any non-empty X without tab or
\* newline, makes the result the X of the first such line; no other line
\* produces a match; the header alone or the empty text gives None.
C6_AnyTokenMatches ==
    pc = "discovered" =>
        /\ FirstDeviceToken(listing, AnyChars) # None =>
              serial = FirstDeviceToken(listing, AnyChars)
        /\ serial # None =>
              \E i \in 1..Len(SplitLines(listing)) :
                 SplitLines(listing)[i] = serial \o <<"\t">> \o DeviceWord
        /\ listing \in {<< >>, Header} => serial = None

\* C6, amended: a line X, tab, device, for a non-empty X made only of letters,
\* digits, underscores and hyphens, makes the result the X of the first such
\* line; a line whose X holds any other character, or whose state word is not
\* device, never produces a match; without such a line (the header alone, the
\* empty text) the result is None.
C6_SerialTokenMatches ==
    pc = "discovered" =>
        /\ FirstDeviceToken(listing, SerialChars) # None =>
              serial = FirstDeviceToken(listing, SerialChars)
        /\ FirstDeviceToken(listing, SerialChars) = None => serial = None
        /\ listing \in {<< >>, Header} => serial = None

\* A line whose X holds a space comes before a line whose X is a serial
\* number: the result is the second line's X.
C6_Witness ==
    /\ pc = "discovered"
    /\ listing = JoinLines(<<TokSpaced \o <<"\t">> \o DeviceWord,
                             TokPlain \o <<"\t">> \o DeviceWord>>)
    /\ serial = TokPlain

-----------------------------------------------------------------------------
(* C7 *)

\* C7: when attempts 1..k-1 show no device line and attempt k shows token T in
\* state device, the poller returns T after exactly k attempts and k-1
\* sleeps, for every k in 1..20, and no attempt or sleep follows the match.
C7_ReturnsAtFirstMatch ==
    /\ pc = "vm_sleep" => FirstDeviceToken(listing, SerialChars) = None
    /\ FirstDeviceToken(listing, SerialChars) # None =>
          /\ matchedAt \in 1..20
          /\ serial = FirstDeviceToken(listing, SerialChars)
          /\ attempts = matchedAt
          /\ sleeps = matchedAt - 1
    /\ serial # None => FirstDeviceToken(listing, SerialChars) = serial

\* The scenario of the spec: offline three times, device on the fourth.
C7_Witness ==
    /\ serial = Emu5554
    /\ matchedAt = 4 /\ attempts = 4 /\ sleeps = 3
    /\ pc = "Done"

-----------------------------------------------------------------------------
(* C8 *)

\* C8: after Clean, for every initial set of directories: without clobber the
\* output directory is gone and nothing else is, with clobber the output
\* directory and the workspace root are gone; Clean succeeds also when its
\* targets are absent, and a second Clean changes nothing.
C8_CleanEffect ==
    pc = "Sync" =>
        /\ stageStatus["Clean"] = "Succeeded"
        /\ BuildOutput \notin fs
        /\ ~clobber => fs = fs0 \ {BuildOutput}
        /\ ~clobber => ((BrilloRoot \in fs) <=> (BrilloRoot \in fs0))
        /\ clobber => BrilloRoot \notin fs /\ fs = {}
        /\ CleanPerformStage(fs, clobber) = fs

\* Clean without clobber on a workspace that held output and a checkout.
C8_Witness ==
    /\ pc = "Sync"
    /\ ~clobber
    /\ fs0 = {BrilloRoot, BuildOutput, RepoDir}
    /\ fs = {BrilloRoot, RepoDir}

-----------------------------------------------------------------------------
(* C9 *)

\* C9: a non-zero exit of 'adb kill-server' is not raised: the poller is still
\* invoked afterwards, and the stage can still succeed.
C9_KillServerFailureNotRaised ==
    killFailed =>
        /\ attempts = 0 => exc = "None" /\ pc = "vm_poll"
        /\ ScopeLeft => attempts >= 1

-----------------------------------------------------------------------------
(* C10 *)

\* C10: when the body of the supervised scope raises E, the VmTest stage
\* fails with E itself, and only after teardown: the process has been waited
\* for and has exited, and the log has been emitted.
C10_InnerErrorAfterTeardown ==
    innerError # "None" =>
        /\ exc = innerError
        /\ stageStatus["VmTest"] \in {"Running", "Failed"}
        /\ pc = "Done" => stageStatus["VmTest"] = "Failed"
        /\ stageStatus["VmTest"] = "Failed" =>
              /\ stageError["VmTest"] = innerError
              /\ pipelineError = innerError
              /\ proc = "Exited"
              /\ waits = 1
              /\ logEmits = 1

\* The test payload failed and the stage reports its CommandFailed.
C10_Witness ==
    /\ testRuns = 1
    /\ innerError = "CommandFailed"
    /\ stageStatus["VmTest"] = "Failed"
    /\ stageError["VmTest"] = "CommandFailed"
    /\ logEmits = 1

-----------------------------------------------------------------------------
(* C11 *)

\* What has happened inside VmTest respects the order spawn, grace wait,
\* kill-server, polling, test payload, teardown; the payload ran at most once,
\* after the poller returned, with the poller's token; its non-zero exit
\* fails the stage and the pipeline with CommandFailed.
VmOrderInv ==
    /\ procAtGrace # "unset" => spawns = 1
    /\ killRuns >= 1 => killRuns = 1 /\ procAtGrace \in {"Starting", "Running"}
    /\ attempts >= 1 => killRuns = 1
    /\ testRuns <= 1
    /\ testRuns = 1 =>
          /\ attempts >= 1 /\ matchedAt = attempts
          /\ serial # None
          /\ testSerial = serial
    /\ serial = None => testRuns = 0
    /\ innerError = "EmulatorNotReady" => testRuns = 0 /\ serial = None
    /\ tdRunning # "unset" => pc \in {"td_term", "td_wait", "td_log", "vm_exit", "Done"}
    /\ testExit > 0 =>
          /\ innerError = "CommandFailed"
          /\ pc = "Done" =>
                /\ stageStatus["VmTest"] = "Failed"
                /\ stageError["VmTest"] = "CommandFailed"
                /\ pipelineStatus = "Failed"
                /\ pipelineError = "CommandFailed"

\* C11: inside VmTest the steps occur only in the order spawn, grace wait,
\* kill-server, polling, test payload, teardown, and nothing of the first five
\* happens once teardown has begun; the test payload runs at most once, only
\* after the poller returned a token and with exactly that token, never after
\* EmulatorNotReady; its non-zero exit makes the stage and the pipeline Failed
\* with CommandFailed.
C11_VmTestStepOrder ==
    /\ []VmOrderInv
    /\ [][/\ (tdRunning # "unset" =>
                UNCHANGED <<spawns, procAtGrace, killRuns, attempts, sleeps, testRuns>>)
          /\ (testRuns >= 1 => UNCHANGED <<spawns, procAtGrace, killRuns, attempts, sleeps>>)
          /\ (attempts >= 1 => UNCHANGED <<spawns, procAtGrace, killRuns>>)
          /\ (killRuns >= 1 => UNCHANGED <<spawns, procAtGrace>>)
          /\ (procAtGrace # "unset" => UNCHANGED spawns)]_vars

\* The test payload ran against the discovered serial and exited non-zero.
C11_Witness ==
    /\ testExit = 1
    /\ testSerial = Emu5554
    /\ pc = "Done"
    /\ stageError["VmTest"] = "CommandFailed"
    /\ pipelineStatus = "Failed"

-----------------------------------------------------------------------------
(* C12 *)

\* C12: the log file is read only when the emulator process has exited and
\* has been waited for, and it is read exactly once per VmTest run.
C12_LogReadAfterExit ==
    /\ logReads <= 1
    /\ pc = "td_log" => proc = "Exited" /\ waits = 1
    /\ logReads = 1 => procAtLogRead = "Exited" /\ waits = 1
    /\ ScopeLeft => logReads = 1

\* The emulator was still running when teardown began, and had exited when
\* the log was read.
C12_Witness ==
    /\ logReads = 1
    /\ tdRunning = "yes"
    /\ procAtLogRead = "Exited"
    /\ pc = "Done"

-----------------------------------------------------------------------------
(* C13 *)

\* C13: the shell runs the steps of the line in the order source-environment,
\* select-build-target, set-output-directory, payload; the payload is
\* executed only if the three steps before it succeeded; if one of them
\* fails, the payload never runs and the line's exit status is non-zero.
C13_PayloadGated ==
    pc = "shell" =>
        /\ \E n \in 0..4 :
              shRan = SubSeq(<<". build/envsetup.sh", "lunch", "OUT_DIR=", shPayload>>, 1, n)
        /\ Len(shRan) = 4 => \A i \in 1..3 : shOutcome[i] = 0
        /\ (\E i \in 1..3 : shOutcome[i] # 0) =>
              /\ Len(shRan) < 4
              /\ shPos > 4 => shStatus # 0

\* lunch failed: the line ended with its status, the payload was not run.
C13_Witness ==
    /\ pc = "shell"
    /\ shPos > 4
    /\ shOutcome[1] = 0 /\ shOutcome[2] = 1
    /\ shRan = <<". build/envsetup.sh", "lunch">>
    /\ shStatus = 1

-----------------------------------------------------------------------------
(* C14 *)

\* C14: the poller sleeps at most 200 time units in all, every sleep is
\* exactly 10 units, and when the first match is on attempt k it has slept
\* exactly 10 * (k - 1).
C14_SleepBudget ==
    /\ slept = 10 * sleeps
    /\ slept <= 200
    /\ matchedAt # 0 => slept = 10 * (matchedAt - 1)

\* No attempt matched: the whole budget was slept.
C14_Witness ==
    /\ innerError = "EmulatorNotReady"
    /\ slept = 200

-----------------------------------------------------------------------------
(* C15 *)

\* C15: at most one emulator is spawned per run, and while the current stage
\* is Clean, Sync or Build, or the pipeline is over, no emulator process is
\* Starting or Running.
C15_EmulatorOnlyInsideVmTest ==
    /\ spawns <= 1
    /\ (pc \in {"Clean", "Sync", "Build", "VmTest", "Done"}
            \/ pipelineStatus \in {"Succeeded", "Failed"}) =>
          proc \in {"NotSpawned", "Exited"}

\* The run is over after a VmTest that failed; its emulator has exited.
C15_Witness ==
    /\ pc = "Done"
    /\ spawns = 1
    /\ proc = "Exited"
    /\ tdRunning = "yes"
    /\ stageStatus["VmTest"] = "Failed"

-----------------------------------------------------------------------------
(* C16 *)

\* The errors the VmTest stage reports: what left PerformStage and RunStages.
ReportedErrors == {stageError["VmTest"], pipelineError} \ {"None"}

\* C16: when the body of the supervised scope raised E and teardown then
\* fails with F (the log cannot be read), the failed VmTest stage reports
\* both E and F; E is not lost.
C16_BothErrorsReported ==
    (innerError # "None" /\ ~logReadable /\ stageStatus["VmTest"] = "Failed") =>
        /\ innerError \in ReportedErrors
        /\ "IOError" \in ReportedErrors

-----------------------------------------------------------------------------
(* C17 *)

\* C17: with every command and sleep returning and a signalled emulator
\* exiting, a VmTest run that spawned the emulator ends Succeeded or Failed;
\* at most one termination request is issued, and the builder thread can be
\* blocked only in the wait-for-exit of teardown, on an emulator that is
\* still running.
C17_VmTestEnds ==
    /\ (spawns = 1) ~> (stageStatus["VmTest"] \in {"Succeeded", "Failed"})
    /\ [](termReqs <= 1)
    /\ []((pipelineStatus = "Running" /\ ~ENABLED ThreadNext) =>
             (pc = "td_wait" /\ proc # "Exited" /\ termReqs = 1))

\* The emulator was signalled once, waited for, and the stage succeeded.
C17_Witness ==
    /\ pc = "Done"
    /\ termReqs = 1 /\ waits = 1
    /\ stageStatus["VmTest"] = "Succeeded"

-----------------------------------------------------------------------------
(* C18 *)

\* C18: a non-zero exit of 'adb devices' on an attempt raises CommandFailed
\* out of the poller at once: it is the last attempt, no sleep follows it,
\* EmulatorNotReady is not raised, the test payload is not run, and the
\* VmTest stage fails with CommandFailed after teardown.
C18_ListingFailureRaises ==
    listFailedAt # 0 =>
        /\ attempts = listFailedAt
        /\ sleeps = listFailedAt - 1
        /\ innerError = "CommandFailed" /\ exc = "CommandFailed"
        /\ serial = None /\ testRuns = 0
        /\ pc \in {"td_poll", "td_term", "td_wait", "td_log", "vm_exit", "Done"}
        /\ pc = "Done" => stageStatus["VmTest"] = "Failed"
        /\ stageStatus["VmTest"] = "Failed" =>
              /\ stageError["VmTest"] = "CommandFailed"
              /\ waits = 1 /\ logEmits = 1

\* The third listing failed after two that did not match.
C18_Witness ==
    /\ listFailedAt = 3
    /\ sleeps = 2
    /\ pc = "Done"
    /\ stageError["VmTest"] = "CommandFailed"

-----------------------------------------------------------------------------
(* C19 *)

\* C19: whenever Build or VmTest starts the workspace root exists, for every
\* initial set of directories and both clobber values; once Sync has
\* succeeded no stage removes the root.
C19_RootExistsAfterSync ==
    /\ \A s \in {"Build", "VmTest"} : s \in Started => BrilloRoot \in fsAtStart[s]
    /\ stageStatus["Sync"] = "Succeeded" => BrilloRoot \in fs

\* Clean with clobber removed an existing root; Sync made it again before
\* Build and VmTest started.
C19_Witness ==
    /\ clobber
    /\ BrilloRoot \in fs0
    /\ fsAtStart["Sync"] = {}
    /\ "VmTest" \in Started
    /\ BrilloRoot \in fsAtStart["Build"] /\ BrilloRoot \in fsAtStart["VmTest"]

-----------------------------------------------------------------------------
(* C20 *)

\* C20 as stated: whenever the emulator exits on its own, a termination
\* request is never issued to a process that has already exited, and
\* teardown performs one wait-for-exit and one log emit without error.
C20_NeverSignalsExited ==
    /\ ~termOnExited
    /\ ScopeLeft => waits = 1 /\ logEmits = 1 /\ exc # "IOError"

\* C20, amended: a termination request is issued only when teardown's own
\* check found the process running (the process may have exited since, and
\* the request then reaches an exited process that is not yet reaped, without
\* error); in every interleaving teardown performs one wait-for-exit and one
\* log emit and ends without a teardown error.
C20_SignalsOnlyAfterRunningCheck ==
    /\ termReqs >= 1 => tdRunning = "yes"
    /\ termOnExited => termReqs = 1 /\ tdRunning = "yes"
    /\ tdRunning = "no" => termReqs = 0
    /\ ScopeLeft => waits = 1 /\ logEmits = 1 /\ exc # "IOError"

\* The emulator exited between the check and the request; teardown went on.
C20_Witness ==
    /\ termOnExited
    /\ pc = "Done"
    /\ waits = 1 /\ logEmits = 1
    /\ stageStatus["VmTest"] = "Succeeded"

=============================================================================
